---- MODULE Spec2Model ----
(***************************************************************************)
(* Street segmentation and coverage matching of markmace/map_coverage      *)
(* (src/main.py, src/webapp.py).                                           *)
(*                                                                         *)
(* Geometry.  The unit of length is 1/111000 degree, which the code takes  *)
(* to be one meter (main.py:176, 187, 410).  Streets are straight          *)
(* polylines on the line lat = 0; a GPS track is a polyline whose points   *)
(* share one latitude (its lateral offset from the streets).  A street     *)
(* piece cut by the Segmenter has rational end points, so a LineString on  *)
(* the street axis is a record [a, b, den] standing for the interval       *)
(* [a/den, b/den]; lengths and ratios are compared by cross               *)
(* multiplication, never rounded.                                          *)
(***************************************************************************)
EXTENDS Integers, Sequences, FiniteSets, TLC

\* ------------------------------------------------------------------ bounds
MaxStreets == 2          \* streets per network handed to the Segmenter
MaxLenSteps == 20        \* street lengths are LenStep * (1..MaxLenSteps)
LenStep == 50
MaxCoverageStreets == 1  \* streets per network in the coverage pipeline
MaxFiles == 2            \* GPX files in the directory

\* --------------------------------------------------- CoverageConfig values
MIN_SEGMENT_LENGTH == 100
MAX_SEGMENT_LENGTH == 100
MIN_COVERAGE_RATIO_PCT == 10
MIN_COVERAGE_THRESHOLD_PCT == 1
BUFFER_DISTANCE == 20
BUFFER_DEGREES_M == 2220
EXCLUDED_HIGHWAY_TYPES == {"motorway", "motorway_link"}

\* The configuration as shipped, and the configurations of the documented
\* scenarios (MAX = 200 m with a strict 0.7 completion ratio; a completion
\* ratio of 0).  CoverageConfig is a class of editable attributes read when
\* a tracker is constructed.
ShippedConfig ==
    [min_segment_length |-> MIN_SEGMENT_LENGTH,
     max_segment_length |-> MAX_SEGMENT_LENGTH,
     min_coverage_ratio |-> MIN_COVERAGE_RATIO_PCT,
     buffer_distance |-> BUFFER_DISTANCE]

Configs ==
    {ShippedConfig,
     [min_segment_length |-> MIN_SEGMENT_LENGTH,
      max_segment_length |-> 2 * MAX_SEGMENT_LENGTH,
      min_coverage_ratio |-> 7 * MIN_COVERAGE_RATIO_PCT,
      buffer_distance |-> BUFFER_DISTANCE],
     [min_segment_length |-> MIN_SEGMENT_LENGTH,
      max_segment_length |-> MAX_SEGMENT_LENGTH,
      min_coverage_ratio |-> 0,
      buffer_distance |-> BUFFER_DISTANCE]}

VARIABLES
    config,                  \* the tracker's configuration attributes
    network,                 \* the street network as downloaded (before filtering)
    loaded,                  \* self.streets / self.street_segments is not None
    streets,                 \* self.streets: the filtered network, with street_id
    street_segments,         \* self.street_segments: the rows of the GeoDataFrame
    street_segment_objects,  \* self.street_segment_objects: segment_id -> StreetSegment
    covered_segments,        \* self.covered_segments
    activities,              \* self.activities
    pc,                      \* where the run is
    next_activity,           \* the loop index of process_activities (1-based)
    error,                   \* the exception that ended the run, or "none"
    observations,            \* history: the (segment, activity index) pairs appended
    coverage_result,         \* what the last call of a coverage-ratio function returned,
                             \* for which activity, and at which position of the loop
    stats,                   \* the statistics last produced from the tracker
    load_errors,             \* the file names printed as "Error loading"
    client,                  \* the StravaClient: tokens, clock, pagination loop
    manager                  \* the ConnectionManager and its broadcast in progress

vars == <<config, network, loaded, streets, street_segments, street_segment_objects,
          covered_segments, activities, pc, next_activity, error, observations,
          coverage_result, stats, load_errors, client, manager>>

\* ------------------------------------------------------------- arithmetic
Min2(x, y) == IF x <= y THEN x ELSE y

Max2(x, y) == IF x >= y THEN x ELSE y

Abs(x) == IF x >= 0 THEN x ELSE -x

RECURSIVE ISqrtFrom(_, _)
ISqrtFrom(n, k) == IF (k + 1) * (k + 1) > n THEN k ELSE ISqrtFrom(n, k + 1)

\* floor of the square root
ISqrt(n) == ISqrtFrom(n, 0)

Range(s) == {s[i] : i \in 1..Len(s)}

RECURSIVE SeqsUpTo(_, _)
SeqsUpTo(S, n) ==
    IF n = 0 THEN {<<>>}
    ELSE LET shorter == SeqsUpTo(S, n - 1)
         IN  shorter \cup {Append(s, x) : s \in {t \in shorter : Len(t) = n - 1}, x \in S}

\* ---------------------------------------------------------------- streets
\* A raw street of the downloaded network: a straight polyline from x0 to
\* x0 + length on the street axis, with its OSM highway tag.
RawStreet(x0, length, highway) ==
    [x0 |-> x0, length |-> length, highway |-> highway]

\* geom.length of a LineString on the street axis, as num/den
GeomLength(g) == [num |-> g.b - g.a, den |-> g.den]

\* only the link roads dropped
FilterRunnableStreets_LinksOnly(raw) ==
    SelectSeq(raw, LAMBDA s : s.highway # "motorway_link")

\* _filter_runnable_streets: drop the excluded highway types, keep the order
FilterRunnableStreets(raw) ==
    SelectSeq(raw, LAMBDA s : s.highway \notin EXCLUDED_HIGHWAY_TYPES)

\* load_city_streets, line 126: street_id = position in the filtered frame
AssignStreetIds(raw) ==
    [k \in 1..Len(raw) |->
        [street_id |-> k - 1, x0 |-> raw[k].x0, length |-> raw[k].length,
         highway |-> raw[k].highway]]

\* line 180
NumSegments(street_length, max_segment_length) ==
    Max2(2, street_length \div max_segment_length)

\* lines 181-186: the chord between interpolated points i and i+1 of n
PieceGeometry(street, n, i) ==
    [a |-> street.x0 * n + i * street.length,
     b |-> street.x0 * n + (i + 1) * street.length,
     den |-> n]

\* line 189: segment_length >= self.min_segment_length
PieceLongEnough(g, min_segment_length) ==
    g.b - g.a >= min_segment_length * g.den

\* lines 190-197 and 200-207: append a row and advance the id counter
EmitSegment(acc, street, g) ==
    [segments |-> Append(acc.segments,
                         [segment_id |-> acc.segment_id,
                          street_id |-> street.street_id,
                          geometry |-> g,
                          length |-> GeomLength(g),
                          highway |-> street.highway]),
     segment_id |-> acc.segment_id + 1]

\* the id counter advanced for every piece, dropped or not
RECURSIVE SplitPieces_CountDropped(_, _, _, _, _)
SplitPieces_CountDropped(acc, street, n, i, cfg) ==
    IF i >= n THEN acc
    ELSE LET g == PieceGeometry(street, n, i)
         IN  SplitPieces_CountDropped(
                 IF PieceLongEnough(g, cfg.min_segment_length)
                 THEN EmitSegment(acc, street, g)
                 ELSE [acc EXCEPT !.segment_id = @ + 1],
                 street, n, i + 1, cfg)

\* lines 185-197: the loop over consecutive points
RECURSIVE SplitPieces(_, _, _, _, _)
SplitPieces(acc, street, n, i, cfg) ==
    IF i >= n THEN acc
    ELSE LET g == PieceGeometry(street, n, i)
         IN  SplitPieces(IF PieceLongEnough(g, cfg.min_segment_length)
                         THEN EmitSegment(acc, street, g)
                         ELSE acc,
                         street, n, i + 1, cfg)

\* the MIN_SEGMENT_LENGTH filter applied to whole streets too
SplitStreet_DropShort(acc, street, cfg) ==
    IF street.length > cfg.max_segment_length
    THEN SplitPieces(acc, street,
                     NumSegments(street.length, cfg.max_segment_length), 0, cfg)
    ELSE IF PieceLongEnough(PieceGeometry(street, 1, 0), cfg.min_segment_length)
    THEN EmitSegment(acc, street, PieceGeometry(street, 1, 0))
    ELSE acc

\* lines 172-207: one street
SplitStreet(acc, street, cfg) ==
    IF street.length > cfg.max_segment_length
    THEN SplitPieces(acc, street,
                     NumSegments(street.length, cfg.max_segment_length), 0, cfg)
    ELSE EmitSegment(acc, street, PieceGeometry(street, 1, 0))

\* lines 168-207: the loop over the streets
RECURSIVE SplitFrom(_, _, _, _)
SplitFrom(acc, strs, k, cfg) ==
    IF k > Len(strs) THEN acc
    ELSE SplitFrom(SplitStreet(acc, strs[k], cfg), strs, k + 1, cfg)

SplitStreetsIntoSegments(strs, cfg) ==
    SplitFrom([segments |-> <<>>, segment_id |-> 0], strs, 1, cfg).segments

\* StreetSegment.__init__
NewStreetSegment(row) ==
    [segment_id |-> row.segment_id,
     geometry |-> row.geometry,
     street_id |-> row.street_id,
     highway |-> row.highway,
     length |-> row.length,
     activities_covering |-> <<>>,
     coverage_ratios |-> <<>>]

\* the dict keyed by the id of the parent street
SegmentObjects_ByStreet(rows) ==
    [id \in {rows[k].street_id : k \in 1..Len(rows)} |->
        NewStreetSegment(
            rows[CHOOSE k \in 1..Len(rows) :
                    /\ rows[k].street_id = id
                    /\ \A j \in 1..Len(rows) : rows[j].street_id = id => j <= k])]

\* lines 211-219: the dict of StreetSegment objects keyed by segment_id
SegmentObjects(rows) ==
    [id \in {rows[k].segment_id : k \in 1..Len(rows)} |->
        NewStreetSegment(
            rows[CHOOSE k \in 1..Len(rows) :
                    /\ rows[k].segment_id = id
                    /\ \A j \in 1..Len(rows) : rows[j].segment_id = id => j <= k])]

\* completion only from the second covering activity on
IsCompleted_SecondTrack(seg) == Len(seg.activities_covering) > 1

\* StreetSegment.is_completed
IsCompleted(seg) == Len(seg.activities_covering) > 0

\* ------------------------------------------------------------ the tracker
NoObjects == [id \in {} |-> 0]

NoResult ==
    [called |-> "none", segment_id |-> -1, num |-> 0, den |-> 1, filename |-> "",
     track |-> 0, at |-> 0]

NoStats ==
    [source |-> "none", total_segments |-> 0, completed_segments |-> 0,
     coverage_percentage |-> [num |-> 0, den |-> 1], total_activities |-> 0]

\* no StravaClient constructed, no ConnectionManager in use
NoClient == [status |-> "absent"]

NoManager == [status |-> "absent"]

\* StravaStreetCoverageTracker.__init__
Init ==
    /\ config \in Configs
    /\ network = <<>>
    /\ loaded = FALSE
    /\ streets = <<>>
    /\ street_segments = <<>>
    /\ street_segment_objects = NoObjects
    /\ covered_segments = {}
    /\ activities = <<>>
    /\ pc = "new"
    /\ next_activity = 0
    /\ error = "none"
    /\ observations = {}
    /\ coverage_result = NoResult
    /\ stats = NoStats
    /\ load_errors = <<>>
    /\ client = NoClient
    /\ manager = NoManager

\* load_city_streets on the downloaded network raw
LoadCityStreets(raw) ==
    /\ pc = "new"
    /\ network' = raw
    /\ LET kept == AssignStreetIds(FilterRunnableStreets(raw))
           rows == SplitStreetsIntoSegments(kept, config)
       IN  /\ streets' = kept
           /\ street_segments' = rows
           /\ street_segment_objects' = SegmentObjects(rows)
    /\ loaded' = TRUE
    /\ pc' = "streets"
    /\ UNCHANGED <<config, covered_segments, activities, next_activity, error,
                   observations, coverage_result,
                   stats, load_errors,
                   client, manager>>

\* ------------------------------------------------------------ GPX tracks
GPSPoint(lon, lat) == [lon |-> lon, lat |-> lat]

\* a GPX file: its name and the points load_gpx_file returns for it
GpxFile(filename, lons, lat) ==
    [filename |-> filename,
     gps_points |-> [k \in 1..Len(lons) |-> GPSPoint(lons[k], lat)]]

\* load_gpx_directory, lines 309-317: total_bounds widened by 0.02 degree.
\* The bounds of an empty frame are NaN, and no point compares inside them.
IsLocal(points, strs) ==
    /\ Len(strs) > 0
    /\ LET minx == CHOOSE x \in {strs[k].x0 : k \in 1..Len(strs)} :
                      \A k \in 1..Len(strs) : x <= strs[k].x0
           maxx == CHOOSE x \in {strs[k].x0 + strs[k].length : k \in 1..Len(strs)} :
                      \A k \in 1..Len(strs) : x >= strs[k].x0 + strs[k].length
       IN  \E i \in 1..Len(points) :
              /\ -BUFFER_DEGREES_M <= points[i].lat
              /\ points[i].lat <= BUFFER_DEGREES_M
              /\ minx - BUFFER_DEGREES_M <= points[i].lon
              /\ points[i].lon <= maxx + BUFFER_DEGREES_M

\* a GPX file that gpxpy cannot parse: load_gpx_file raises for it
MalformedGpxFile(filename) == [filename |-> filename, raises |-> "GPXException"]

ParseRaises(file) == "raises" \in DOMAIN file

\* lines 335-355: a file is kept when it loads, has at least 2 points and
\* is local
KeepsFile(file, strs) ==
    /\ ~ParseRaises(file)
    /\ Len(file.gps_points) >= 2
    /\ IsLocal(file.gps_points, strs)

\* the walk ended by the first file whose loading raises
RECURSIVE LoadedActivities_StopAtError(_, _)
LoadedActivities_StopAtError(dir, strs) ==
    IF dir = <<>> \/ ParseRaises(Head(dir)) THEN <<>>
    ELSE (IF KeepsFile(Head(dir), strs) THEN <<Head(dir)>> ELSE <<>>)
         \o LoadedActivities_StopAtError(Tail(dir), strs)

LoadedActivities(dir, strs) == SelectSeq(dir, LAMBDA f : KeepsFile(f, strs))

\* lines 356-357: the names printed for the files whose loading raised
LoadErrors(dir) ==
    LET raising == SelectSeq(dir, ParseRaises)
    IN  [k \in 1..Len(raising) |-> raising[k].filename]

\* load_gpx_directory over the files of the directory, in walk order
LoadGpxDirectory(dir) ==
    /\ pc = "streets"
    /\ activities' = activities \o LoadedActivities(dir, streets)
    /\ load_errors' = load_errors \o LoadErrors(dir)
    /\ pc' = "activities"
    /\ UNCHANGED <<config, network, loaded, streets, street_segments,
                   street_segment_objects, covered_segments, next_activity,
                   error, observations, coverage_result, stats,
                   client, manager>>

\* main.py 642-645, webapp.py 122-123: no activity, no analysis
NoActivitiesExit ==
    /\ pc = "activities"
    /\ Len(activities) = 0
    /\ pc' = "exit"
    /\ UNCHANGED <<config, network, loaded, streets, street_segments,
                   street_segment_objects, covered_segments, activities,
                   next_activity, error, observations,
                   coverage_result,
                   stats, load_errors,
                   client, manager>>

\* ------------------------------------------------------- coverage matching
\* The cut of a buffered polyline by the street axis: the points of lat = 0
\* within BUFFER_DISTANCE of the polyline through lons at latitude lat.  A
\* polyline is connected, so the cut is one interval, or empty.
BufferCut(lons, lat) ==
    LET lo == CHOOSE x \in lons : \A y \in lons : x <= y
        hi == CHOOSE x \in lons : \A y \in lons : x >= y
        d == Abs(lat)
        w == ISqrt(BUFFER_DISTANCE * BUFFER_DISTANCE - d * d)
    IN  IF d > BUFFER_DISTANCE
        THEN [empty |-> TRUE, lo |-> 0, hi |-> 0]
        ELSE [empty |-> FALSE, lo |-> lo - w, hi |-> hi + w]

\* LineString(points).buffer(BUFFER_DISTANCE / 111000), lines 407-410, 450
BufferedActivity(points) ==
    BufferCut({points[i].lon : i \in 1..Len(points)}, points[1].lat)

\* buffered_activity.intersects(street_segment.geometry): closed sets, a
\* shared end point counts
Intersects(buf, g) ==
    /\ ~buf.empty
    /\ buf.lo * g.den <= g.b
    /\ g.a <= buf.hi * g.den

\* the length, over g.den, of the part of g inside buf
Overlap(buf, g) ==
    IF Intersects(buf, g)
    THEN Min2(g.b, buf.hi * g.den) - Max2(g.a, buf.lo * g.den)
    ELSE 0

\* a double count: the sum, over the legs of the track, of the part of g
\* inside each leg's buffer
RECURSIVE OverlapPerLeg(_, _, _)
OverlapPerLeg(points, g, i) ==
    IF i >= Len(points) THEN 0
    ELSE Overlap(BufferCut({points[i].lon, points[i + 1].lon}, points[1].lat), g)
         + OverlapPerLeg(points, g, i + 1)

IntersectionLength_PerLeg(points, g) == OverlapPerLeg(points, g, 1)

\* lines 456-462: buffered_activity.intersection(geometry).length, over g.den
IntersectionLength(points, g) == Overlap(BufferedActivity(points), g)

\* a ratio of 0 for a segment that already has a covering activity
CalculateCoverageRatioWithLine_SkipCovered(points, seg) ==
    LET g == seg.geometry
    IN  IF \/ ~Intersects(BufferedActivity(points), g)
           \/ Len(seg.activities_covering) > 0
        THEN [raised |-> FALSE, num |-> 0, den |-> 1]
        ELSE [raised |-> FALSE, num |-> IntersectionLength(points, g),
              den |-> g.b - g.a]

\* _calculate_coverage_ratio_with_line: the ratio num/den, or the
\* ZeroDivisionError of line 465 for a segment of length 0
CalculateCoverageRatioWithLine(points, seg) ==
    LET g == seg.geometry
    IN  IF ~Intersects(BufferedActivity(points), g)
        THEN [raised |-> FALSE, num |-> 0, den |-> 1]
        ELSE IF g.b - g.a = 0
        THEN [raised |-> TRUE, num |-> 0, den |-> 1]
        ELSE [raised |-> FALSE, num |-> IntersectionLength(points, g),
              den |-> g.b - g.a]

\* _calculate_coverage_ratio_wrapper_with_line: an exception becomes 0.0
CalculateCoverageRatioWrapperWithLine(points, seg, filename) ==
    LET r == CalculateCoverageRatioWithLine(points, seg)
    IN  [called |-> "wrapper", segment_id |-> seg.segment_id,
         num |-> IF r.raised THEN 0 ELSE r.num,
         den |-> IF r.raised THEN 1 ELSE r.den,
         filename |-> filename]

\* activity_line.intersects / intersection of lines 369-381: the part of
\* the street the unbuffered track runs along, over g.den
LineOverlap(points, g) ==
    LET lons == {points[i].lon : i \in 1..Len(points)}
        lo == CHOOSE x \in lons : \A y \in lons : x <= y
        hi == CHOOSE x \in lons : \A y \in lons : x >= y
    IN  [intersects |-> /\ points[1].lat = 0
                        /\ lo * g.den <= g.b
                        /\ g.a <= hi * g.den,
         length |-> Min2(g.b, hi * g.den) - Max2(g.a, lo * g.den)]

\* _calculate_coverage_ratio (the unbuffered variant): 0.0 for a track of
\* fewer than 2 points, else the ratio or the ZeroDivisionError of line 384
CalculateCoverageRatio(points, seg) ==
    LET g == seg.geometry
    IN  IF Len(points) < 2
        THEN [raised |-> FALSE, num |-> 0, den |-> 1]
        ELSE IF ~LineOverlap(points, g).intersects
        THEN [raised |-> FALSE, num |-> 0, den |-> 1]
        ELSE IF g.b - g.a = 0
        THEN [raised |-> TRUE, num |-> 0, den |-> 1]
        ELSE [raised |-> FALSE, num |-> LineOverlap(points, g).length,
              den |-> g.b - g.a]

\* a worker that marks the segment covered itself when the ratio is positive
CallCoverageRatioWrapper_Marking ==
    /\ loaded
    /\ \E k \in 1..Len(activities), id \in DOMAIN street_segment_objects :
          /\ Len(activities[k].gps_points) >= 2
          /\ LET w == CalculateCoverageRatioWrapperWithLine(
                          activities[k].gps_points, street_segment_objects[id],
                          activities[k].filename)
             IN  /\ coverage_result' =
                       [called |-> w.called, segment_id |-> w.segment_id,
                        num |-> w.num, den |-> w.den, filename |-> w.filename,
                        track |-> k, at |-> next_activity]
                 /\ covered_segments' =
                       IF w.num > 0 THEN covered_segments \cup {id}
                       ELSE covered_segments
    /\ UNCHANGED <<config, network, loaded, streets, street_segments,
                   street_segment_objects, activities, pc,
                   next_activity, error, observations, stats, load_errors,
                   client, manager>>

\* a worker's call of the wrapper on (activity k, segment id); the caller
\* has built the line, so the activity has at least 2 points
CallCoverageRatioWrapper ==
    /\ loaded
    /\ \E k \in 1..Len(activities), id \in DOMAIN street_segment_objects :
          /\ Len(activities[k].gps_points) >= 2
          /\ LET w == CalculateCoverageRatioWrapperWithLine(
                          activities[k].gps_points, street_segment_objects[id],
                          activities[k].filename)
             IN  coverage_result' =
                    [called |-> w.called, segment_id |-> w.segment_id,
                     num |-> w.num, den |-> w.den, filename |-> w.filename,
                     track |-> k, at |-> next_activity]
    /\ UNCHANGED <<config, network, loaded, streets, street_segments,
                   street_segment_objects, covered_segments, activities, pc,
                   next_activity, error, observations, stats, load_errors,
                   client, manager>>

\* a call of _calculate_coverage_ratio on (activity k, segment id)
CallCoverageRatio ==
    /\ loaded
    /\ pc # "failed"
    /\ \E k \in 1..Len(activities), id \in DOMAIN street_segment_objects :
          LET r == CalculateCoverageRatio(activities[k].gps_points,
                                          street_segment_objects[id])
          IN  IF r.raised
              THEN /\ error' = "ZeroDivisionError"
                   /\ pc' = "failed"
                   /\ UNCHANGED coverage_result
              ELSE /\ coverage_result' =
                         [called |-> "unbuffered", segment_id |-> id,
                          num |-> r.num, den |-> r.den,
                          filename |-> activities[k].filename,
                          track |-> k, at |-> next_activity]
                   /\ UNCHANGED <<error, pc>>
    /\ UNCHANGED <<config, network, loaded, streets, street_segments,
                   street_segment_objects, covered_segments, activities,
                   next_activity, observations, stats, load_errors,
                   client, manager>>

\* only the first activity to reach a segment is listed
UpdateSegment_FirstOnly(seg, activity) ==
    IF /\ Intersects(BufferedActivity(activity.gps_points), seg.geometry)
       /\ Len(seg.activities_covering) = 0
    THEN [seg EXCEPT !.activities_covering = Append(@, activity.filename)]
    ELSE seg

\* the covering list recomputed for each activity instead of extended
UpdateSegment_Overwrite(seg, activity) ==
    IF Intersects(BufferedActivity(activity.gps_points), seg.geometry)
    THEN [seg EXCEPT !.activities_covering = <<activity.filename>>]
    ELSE [seg EXCEPT !.activities_covering = <<>>]

\* process_activities, lines 414-418: the segment after one activity
UpdateSegment(seg, activity) ==
    IF /\ Intersects(BufferedActivity(activity.gps_points), seg.geometry)
       /\ activity.filename \notin Range(seg.activities_covering)
    THEN [seg EXCEPT !.activities_covering = Append(@, activity.filename)]
    ELSE seg

\* process_activities, lines 388-396
ProcessActivitiesStart ==
    /\ pc = "activities"
    /\ Len(activities) > 0
    /\ IF ~loaded
       THEN /\ error' = "ValueError"
            /\ pc' = "failed"
            /\ UNCHANGED next_activity
       ELSE /\ pc' = "processing"
            /\ next_activity' = 1
            /\ UNCHANGED error
    /\ UNCHANGED <<config, network, loaded, streets, street_segments,
                   street_segment_objects, covered_segments, activities,
                   observations, coverage_result,
                   stats, load_errors,
                   client, manager>>

\* the guard off by one
SkipsActivity_OffByOne(activity) == Len(activity.gps_points) < 1

\* line 399: the activity is skipped
SkipsActivity(activity) == Len(activity.gps_points) < 2

\* the covered set left to be filled in after the loop
ProcessActivity_DeferCovered ==
    /\ pc = "processing"
    /\ next_activity <= Len(activities)
    /\ LET activity == activities[next_activity]
           updated == [id \in DOMAIN street_segment_objects |->
                          IF SkipsActivity(activity)
                          THEN street_segment_objects[id]
                          ELSE UpdateSegment(street_segment_objects[id], activity)]
           appended == {id \in DOMAIN street_segment_objects :
                          Len(updated[id].activities_covering)
                            > Len(street_segment_objects[id].activities_covering)}
       IN  /\ street_segment_objects' = updated
           /\ observations' =
                 observations \cup
                 {[segment_id |-> id, track |-> next_activity] : id \in appended}
    /\ next_activity' = next_activity + 1
    /\ UNCHANGED <<config, network, loaded, streets, street_segments, activities,
                   covered_segments, pc, error, coverage_result, stats,
                   load_errors,
                   client, manager>>

\* process_activities, lines 398-422 (webapp.py 128-148): one activity.
\* LineString raises on fewer than 2 points.
ProcessActivity ==
    /\ pc = "processing"
    /\ next_activity <= Len(activities)
    /\ LET activity == activities[next_activity]
       IN  IF SkipsActivity(activity)
           THEN /\ next_activity' = next_activity + 1
                /\ UNCHANGED <<street_segment_objects, covered_segments,
                               observations, pc, error>>
           ELSE IF Len(activity.gps_points) < 2
           THEN /\ error' = "ValueError"
                /\ pc' = "failed"
                /\ UNCHANGED <<street_segment_objects, covered_segments,
                               observations, next_activity>>
           ELSE LET updated == [id \in DOMAIN street_segment_objects |->
                                   UpdateSegment(street_segment_objects[id], activity)]
                    appended == {id \in DOMAIN street_segment_objects :
                                   Len(updated[id].activities_covering)
                                     > Len(street_segment_objects[id].activities_covering)}
                IN  /\ street_segment_objects' = updated
                    /\ covered_segments' =
                          covered_segments \cup {id \in appended : IsCompleted(updated[id])}
                    /\ observations' =
                          observations \cup
                          {[segment_id |-> id, track |-> next_activity] : id \in appended}
                    /\ next_activity' = next_activity + 1
                    /\ UNCHANGED <<pc, error>>
    /\ UNCHANGED <<config, network, loaded, streets, street_segments, activities,
                   coverage_result,
                   stats, load_errors,
                   client, manager>>

\* process_activities, lines 424-436: the final statistics
ProcessActivitiesFinish ==
    /\ pc = "processing"
    /\ next_activity > Len(activities)
    /\ IF Len(street_segments) = 0
       THEN /\ error' = "ZeroDivisionError"
            /\ pc' = "failed"
       ELSE /\ pc' = "done"
            /\ UNCHANGED error
    /\ UNCHANGED <<config, network, loaded, streets, street_segments,
                   street_segment_objects, covered_segments, activities,
                   next_activity, observations, coverage_result,
                   stats, load_errors,
                   client, manager>>

\* processing stopped between two activities (an interrupt raised in the
\* loop of process_activities, or at an await of the loop of analyze_coverage)
Cancel ==
    /\ pc = "processing"
    /\ pc' = "cancelled"
    /\ UNCHANGED <<config, network, loaded, streets, street_segments,
                   street_segment_objects, covered_segments, activities,
                   next_activity, error, observations, coverage_result,
                   stats, load_errors,
                   client, manager>>

\* ---------------------------------------------------------- the statistics
\* the fraction left as it is
Percentage_Fraction(completed, total) == [num |-> completed, den |-> total]

\* completed / total * 100, as num/den
Percentage(completed, total) == [num |-> 100 * completed, den |-> total]

\* StreetSegment.completion_metadata
CompletionMetadata(seg) ==
    [segment_id |-> seg.segment_id,
     is_completed |-> IsCompleted(seg),
     activity_count |-> Len(seg.activities_covering)]

\* the map counting the covering activities instead of the covered segments
MapStatistics_CountsCoverings ==
    LET coverings ==
            UNION {{<<id, name>> :
                       name \in Range(street_segment_objects[id].activities_covering)} :
                   id \in DOMAIN street_segment_objects}
    IN  [source |-> "create_map",
         total_segments |-> Len(street_segments),
         completed_segments |-> Cardinality(coverings),
         coverage_percentage |->
             Percentage(Cardinality(coverings), Len(street_segments)),
         total_activities |-> Len(activities)]

\* create_map, lines 568-583: the statistics box of the map
MapStatistics ==
    [source |-> "create_map",
     total_segments |-> Len(street_segments),
     completed_segments |-> Cardinality(covered_segments),
     coverage_percentage |->
         Percentage(Cardinality(covered_segments), Len(street_segments)),
     total_activities |-> Len(activities)]

\* export_statistics, lines 591-604: the counts of the stats dict
ExportedStatistics ==
    LET completed_segments ==
            {id \in DOMAIN street_segment_objects :
                IsCompleted(street_segment_objects[id])}
    IN  [source |-> "export_statistics",
         total_segments |-> Len(street_segments),
         completed_segments |-> Cardinality(completed_segments),
         coverage_percentage |->
             Percentage(Cardinality(completed_segments), Len(street_segments)),
         total_activities |-> Len(activities)]

\* webapp.py 177-188: the counts of the CoverageResponse
CoverageResponse ==
    LET total_segments == Len(street_segments)
        completed_segments ==
            Cardinality({id \in DOMAIN street_segment_objects :
                            IsCompleted(street_segment_objects[id])})
    IN  [source |-> "analyze_coverage",
         total_segments |-> total_segments,
         completed_segments |-> completed_segments,
         coverage_percentage |->
             IF total_segments > 0
             THEN Percentage(completed_segments, total_segments)
             ELSE [num |-> 0, den |-> 1],
         total_activities |-> Len(activities)]

\* create_map after the processing has ended or was stopped; the division
\* of line 571 raises without segments
CreateMap ==
    /\ pc \in {"done", "cancelled"}
    /\ loaded
    /\ IF Len(street_segments) = 0
       THEN /\ error' = "ZeroDivisionError"
            /\ pc' = "failed"
            /\ UNCHANGED stats
       ELSE /\ stats' = MapStatistics
            /\ UNCHANGED <<error, pc>>
    /\ UNCHANGED <<config, network, loaded, streets, street_segments,
                   street_segment_objects, covered_segments, activities,
                   next_activity, observations, coverage_result, load_errors,
                   client, manager>>

\* the covered set emptied once it has been reported
ExportStatistics_Consuming ==
    /\ pc \in {"done", "cancelled"}
    /\ loaded
    /\ Len(street_segments) > 0
    /\ stats' = ExportedStatistics
    /\ covered_segments' = {}
    /\ UNCHANGED <<config, network, loaded, streets, street_segments,
                   street_segment_objects, activities, pc, next_activity,
                   error, observations, coverage_result, load_errors,
                   client, manager>>

\* export_statistics after the processing has ended or was stopped; the
\* division of line 601 raises without segments
ExportStatistics ==
    /\ pc \in {"done", "cancelled"}
    /\ loaded
    /\ IF Len(street_segments) = 0
       THEN /\ error' = "ZeroDivisionError"
            /\ pc' = "failed"
            /\ UNCHANGED stats
       ELSE /\ stats' = ExportedStatistics
            /\ UNCHANGED <<error, pc>>
    /\ UNCHANGED <<config, network, loaded, streets, street_segments,
                   street_segment_objects, covered_segments, activities,
                   next_activity, observations, coverage_result, load_errors,
                   client, manager>>

\* analyze_coverage, webapp.py 163-196: the response built once the map
\* and the statistics file have been written
AnalyzeCoverageResponse ==
    /\ pc = "done"
    /\ stats.source = "export_statistics"
    /\ stats' = CoverageResponse
    /\ UNCHANGED <<config, network, loaded, streets, street_segments,
                   street_segment_objects, covered_segments, activities, pc,
                   next_activity, error, observations, coverage_result,
                   load_errors,
                   client, manager>>

\* --------------------------------------------------- the coverage pipeline
CoverageStreets ==
    {RawStreet(0, 2 * LenStep, "residential"), RawStreet(0, 3 * LenStep, "residential"),
     RawStreet(0, 5 * LenStep, "residential"), RawStreet(0, 2 * LenStep, "motorway")}

CoverageStreetLists == SeqsUpTo(CoverageStreets, MaxCoverageStreets)

\* Tracks against a street from 0 to 100: too short to be a track; touching
\* the street's end point; reaching 1 m into it; two disjoint 40 m spans (a
\* standing track each); the whole street; the street from 16 m and from
\* 30 m to its side; the whole street there and back.
TrackLines ==
    {<<(<<20>>), 0>>, <<(<<-40, -20>>), 0>>, <<(<<-40, -19>>), 0>>,
     <<(<<20, 20>>), 0>>, <<(<<80, 80>>), 0>>, <<(<<20, 80>>), 0>>,
     <<(<<20, 80>>), 16>>, <<(<<20, 80>>), 30>>, <<(<<20, 80, 20>>), 0>>}

\* the tracks that also come under a second file name
SecondNameLines == {<<(<<80, 80>>), 0>>, <<(<<20, 80>>), 0>>}

GpxFiles ==
    {GpxFile("a.gpx", t[1], t[2]) : t \in TrackLines}
    \cup {GpxFile("b.gpx", t[1], t[2]) : t \in SecondNameLines}

GpxDirs == SeqsUpTo(GpxFiles, MaxFiles)

Next ==
    \/ \E raw \in CoverageStreetLists : LoadCityStreets(raw)
    \/ \E dir \in GpxDirs : LoadGpxDirectory(dir)
    \/ NoActivitiesExit
    \/ ProcessActivitiesStart
    \/ ProcessActivity
    \/ ProcessActivitiesFinish
    \/ CreateMap
    \/ ExportStatistics
    \/ AnalyzeCoverageResponse

Spec == Init /\ [][Next]_vars

\* ------------------------------------------- directories of any GPX files
\* The pipeline over directories whose files may be unusable: a track along
\* the street; a standing track under a second name; a file of one point; a
\* track 5 km away from the street; a file that does not parse.
LoadFiles ==
    {GpxFile("a.gpx", <<20, 80>>, 0), GpxFile("b.gpx", <<80, 80>>, 0),
     GpxFile("a.gpx", <<20>>, 0), GpxFile("b.gpx", <<5000, 5060>>, 0),
     MalformedGpxFile("c.gpx")}

GpxDirectories == SeqsUpTo(LoadFiles, MaxFiles)

LoadNext ==
    \/ \E raw \in CoverageStreetLists : LoadCityStreets(raw)
    \/ \E dir \in GpxDirectories : LoadGpxDirectory(dir)
    \/ NoActivitiesExit
    \/ ProcessActivitiesStart
    \/ ProcessActivity
    \/ ProcessActivitiesFinish

LoadSpec == Init /\ [][LoadNext]_vars

\* ------------------------------------------------ the tracker as a library
\* A caller that has loaded a network and filled tracker.activities itself
\* (any tracks, the ones load_gpx_directory would not keep included), then
\* runs process_activities and the coverage-ratio functions.
LibInit ==
    /\ config \in Configs
    /\ network \in CoverageStreetLists
    /\ loaded = TRUE
    /\ streets = AssignStreetIds(FilterRunnableStreets(network))
    /\ street_segments = SplitStreetsIntoSegments(streets, config)
    /\ street_segment_objects = SegmentObjects(street_segments)
    /\ covered_segments = {}
    /\ activities \in GpxDirs \ {<<>>}
    /\ pc = "activities"
    /\ next_activity = 0
    /\ error = "none"
    /\ observations = {}
    /\ coverage_result = NoResult
    /\ stats = NoStats
    /\ load_errors = <<>>
    /\ client = NoClient
    /\ manager = NoManager

LibNext ==
    \/ ProcessActivitiesStart
    \/ ProcessActivity
    \/ ProcessActivitiesFinish

LibSpec == LibInit /\ [][LibNext]_vars

\* ------------------------------------------- the coverage-ratio functions
\* The functions applied to any (track, segment) pair of a loaded network.
MatcherInit ==
    /\ config \in Configs
    /\ network \in CoverageStreetLists
    /\ loaded = TRUE
    /\ streets = AssignStreetIds(FilterRunnableStreets(network))
    /\ street_segments = SplitStreetsIntoSegments(streets, config)
    /\ street_segment_objects = SegmentObjects(street_segments)
    /\ covered_segments = {}
    /\ activities \in {<<f>> : f \in GpxFiles}
    /\ pc = "activities"
    /\ next_activity = 0
    /\ error = "none"
    /\ observations = {}
    /\ coverage_result = NoResult
    /\ stats = NoStats
    /\ load_errors = <<>>
    /\ client = NoClient
    /\ manager = NoManager

MatcherNext ==
    \/ CallCoverageRatioWrapper
    \/ CallCoverageRatio

MatcherSpec == MatcherInit /\ [][MatcherNext]_vars

\* --------------------------- the coverage-ratio functions during processing
\* Calls of the coverage-ratio functions made before, between and after the
\* steps of process_activities on the same tracker.
WorkerRuns ==
    {<<GpxFile("a.gpx", <<20, 80>>, 0), GpxFile("b.gpx", <<80, 80>>, 0)>>,
     <<GpxFile("b.gpx", <<80, 80>>, 0), GpxFile("a.gpx", <<20, 80>>, 0)>>,
     <<GpxFile("a.gpx", <<-40, -19>>, 0), GpxFile("a.gpx", <<20, 80>>, 0)>>,
     <<GpxFile("a.gpx", <<20, 80>>, 30)>>}

WorkerInit ==
    /\ config \in Configs
    /\ network \in CoverageStreetLists
    /\ loaded = TRUE
    /\ streets = AssignStreetIds(FilterRunnableStreets(network))
    /\ street_segments = SplitStreetsIntoSegments(streets, config)
    /\ street_segment_objects = SegmentObjects(street_segments)
    /\ covered_segments = {}
    /\ activities \in WorkerRuns
    /\ pc = "activities"
    /\ next_activity = 0
    /\ error = "none"
    /\ observations = {}
    /\ coverage_result = NoResult
    /\ stats = NoStats
    /\ load_errors = <<>>
    /\ client = NoClient
    /\ manager = NoManager

WorkerNext ==
    \/ ProcessActivitiesStart
    \/ ProcessActivity
    \/ ProcessActivitiesFinish
    \/ CallCoverageRatioWrapper
    \/ CallCoverageRatio

WorkerSpec == WorkerInit /\ [][WorkerNext]_vars

\* ------------------------------------------- a run that may be stopped early
\* process_activities on a caller-filled tracker, stopped after any number
\* of activities, and the statistics read from the tracker afterwards.
\* Tracks: along the street; standing on it under the same file name; along
\* it under a second name; 30 m to its side.
AggFiles ==
    {GpxFile("a.gpx", <<20, 80>>, 0), GpxFile("a.gpx", <<80, 80>>, 0),
     GpxFile("b.gpx", <<20, 80>>, 0), GpxFile("a.gpx", <<20, 80>>, 30)}

AggInit ==
    /\ config \in Configs
    /\ network \in CoverageStreetLists
    /\ loaded = TRUE
    /\ streets = AssignStreetIds(FilterRunnableStreets(network))
    /\ street_segments = SplitStreetsIntoSegments(streets, config)
    /\ street_segment_objects = SegmentObjects(street_segments)
    /\ covered_segments = {}
    /\ activities \in SeqsUpTo(AggFiles, MaxFiles) \ {<<>>}
    /\ pc = "activities"
    /\ next_activity = 0
    /\ error = "none"
    /\ observations = {}
    /\ coverage_result = NoResult
    /\ stats = NoStats
    /\ load_errors = <<>>
    /\ client = NoClient
    /\ manager = NoManager

AggNext ==
    \/ ProcessActivitiesStart
    \/ ProcessActivity
    \/ ProcessActivitiesFinish
    \/ Cancel
    \/ CreateMap
    \/ ExportStatistics
    \/ AnalyzeCoverageResponse

AggSpec == AggInit /\ [][AggNext]_vars

\* ------------------------------------------------------- the Segmenter alone
SegStreets ==
    {RawStreet(0, LenStep * k, "residential") : k \in 1..MaxLenSteps}
    \cup {RawStreet(0, 2 * LenStep, "motorway")}

SegStreetLists == SeqsUpTo(SegStreets, MaxStreets)

SegNext == \E raw \in SegStreetLists : LoadCityStreets(raw)

SegSpec == Init /\ [][SegNext]_vars

\* ------------------------------------------- trackers configured otherwise
\* StravaStreetCoverageTracker(city) with the default of its buffer_distance
\* parameter (line 83)
DEFAULT_BUFFER_DISTANCE == 15

\* CoverageConfig edited so that MIN_SEGMENT_LENGTH exceeds
\* MAX_SEGMENT_LENGTH; __init__ (lines 82-105) reads the values unchecked
InvalidConfig ==
    [min_segment_length |-> 2 * MIN_SEGMENT_LENGTH,
     max_segment_length |-> MAX_SEGMENT_LENGTH,
     min_coverage_ratio |-> MIN_COVERAGE_RATIO_PCT,
     buffer_distance |-> BUFFER_DISTANCE]

\* the shipped CoverageConfig in a tracker built without buffer_distance
DefaultBufferConfig ==
    [min_segment_length |-> MIN_SEGMENT_LENGTH,
     max_segment_length |-> MAX_SEGMENT_LENGTH,
     min_coverage_ratio |-> MIN_COVERAGE_RATIO_PCT,
     buffer_distance |-> DEFAULT_BUFFER_DISTANCE]

\* tracks along the street: on it, 18 m and 30 m to its side
ConfigFiles ==
    {GpxFile("a.gpx", <<20, 80>>, 0), GpxFile("b.gpx", <<20, 80>>, 18),
     GpxFile("c.gpx", <<20, 80>>, 30)}

ConfigDirs == SeqsUpTo(ConfigFiles, MaxFiles)

ConfigInit ==
    /\ config \in {InvalidConfig, DefaultBufferConfig}
    /\ network = <<>>
    /\ loaded = FALSE
    /\ streets = <<>>
    /\ street_segments = <<>>
    /\ street_segment_objects = NoObjects
    /\ covered_segments = {}
    /\ activities = <<>>
    /\ pc = "new"
    /\ next_activity = 0
    /\ error = "none"
    /\ observations = {}
    /\ coverage_result = NoResult
    /\ stats = NoStats
    /\ load_errors = <<>>
    /\ client = NoClient
    /\ manager = NoManager

ConfigNext ==
    \/ \E raw \in CoverageStreetLists : LoadCityStreets(raw)
    \/ \E dir \in ConfigDirs : LoadGpxDirectory(dir)
    \/ NoActivitiesExit
    \/ ProcessActivitiesStart
    \/ ProcessActivity
    \/ ProcessActivitiesFinish
    \/ CreateMap
    \/ ExportStatistics
    \/ AnalyzeCoverageResponse

ConfigSpec == ConfigInit /\ [][ConfigNext]_vars

\* ------------------------------------------------------ degenerate geometry
\* A caller-filled tracker whose network is a 100 m street or a street of
\* length 0 at x = 50 (kept whole by the Segmenter), with tracks that stand
\* still (two identical points, at x = 50 and at x = 80), a track of one
\* point and a track along the street.
DegenerateNetworks ==
    {<<RawStreet(0, 2 * LenStep, "residential")>>, <<RawStreet(LenStep, 0, "residential")>>}

DegenerateFiles ==
    {GpxFile("a.gpx", <<50, 50>>, 0), GpxFile("b.gpx", <<80, 80>>, 0),
     GpxFile("c.gpx", <<50>>, 0), GpxFile("d.gpx", <<20, 80>>, 0)}

DegenerateInit ==
    /\ config \in Configs
    /\ network \in DegenerateNetworks
    /\ loaded = TRUE
    /\ streets = AssignStreetIds(FilterRunnableStreets(network))
    /\ street_segments = SplitStreetsIntoSegments(streets, config)
    /\ street_segment_objects = SegmentObjects(street_segments)
    /\ covered_segments = {}
    /\ activities \in SeqsUpTo(DegenerateFiles, MaxFiles) \ {<<>>}
    /\ pc = "activities"
    /\ next_activity = 0
    /\ error = "none"
    /\ observations = {}
    /\ coverage_result = NoResult
    /\ stats = NoStats
    /\ load_errors = <<>>
    /\ client = NoClient
    /\ manager = NoManager

DegenerateNext ==
    \/ ProcessActivitiesStart
    \/ ProcessActivity
    \/ ProcessActivitiesFinish
    \/ CallCoverageRatioWrapper

DegenerateSpec == DegenerateInit /\ [][DegenerateNext]_vars

\* ------------------------------------------------- processing more than once
\* process_activities called again on a tracker whose previous call has
\* returned: nothing is reset, the loop starts over on the same activities
ProcessActivitiesAgain ==
    /\ pc = "done"
    /\ pc' = "processing"
    /\ next_activity' = 1
    /\ UNCHANGED <<config, network, loaded, streets, street_segments,
                   street_segment_objects, covered_segments, activities,
                   error, observations, coverage_result, stats, load_errors,
                   client, manager>>

RerunNext ==
    \/ ProcessActivitiesStart
    \/ ProcessActivity
    \/ ProcessActivitiesFinish
    \/ ProcessActivitiesAgain

RerunSpec == AggInit /\ [][RerunNext]_vars

\* ------------------------------------------------------- the Strava client
\* the tracker's variables, which the client and the connection manager
\* never touch
trackerVars ==
    <<config, network, loaded, streets, street_segments, street_segment_objects,
      covered_segments, activities, pc, next_activity, error, observations,
      coverage_result, stats, load_errors>>

\* a tracker constructed and left alone
TrackerIdle ==
    /\ config = ShippedConfig
    /\ network = <<>>
    /\ loaded = FALSE
    /\ streets = <<>>
    /\ street_segments = <<>>
    /\ street_segment_objects = NoObjects
    /\ covered_segments = {}
    /\ activities = <<>>
    /\ pc = "new"
    /\ next_activity = 0
    /\ error = "none"
    /\ observations = {}
    /\ coverage_result = NoResult
    /\ stats = NoStats
    /\ load_errors = <<>>

MaxTime == 4             \* the clock runs from 1 to MaxTime
TokenLife == 2           \* expires_at of an issued token is now + TokenLife

\* Tokens are 0 for None (or an empty string) and 1 for a token string;
\* token_expiry is 0 for None, else a time.  `returned' is how the last
\* call of ensure_authenticated ended, `path' which way it took and `at'
\* the time of the call.
AuthClient(access_token, refresh_token, token_expiry) ==
    [status |-> "client",
     access_token |-> access_token,
     refresh_token |-> refresh_token,
     token_expiry |-> token_expiry,
     now |-> 1,
     returned |-> "none",
     path |-> "none",
     at |-> 0]

\* needs_auth, lines 53-59
NeedsAuth(c) ==
    IF c.access_token = 0 THEN TRUE
    ELSE IF c.token_expiry # 0 /\ c.now > c.token_expiry THEN TRUE
    ELSE FALSE

\* lines 76-81 and 141-146: the tokens of a 200 response are stored
StoreTokens(c) ==
    [c EXCEPT !.access_token = 1, !.refresh_token = 1,
              !.token_expiry = c.now + TokenLife]

\* authenticate, lines 86-151, as called by ensure_authenticated, which
\* drops its return value: a 200 response stores the tokens, any other
\* response prints "Authentication failed" and returns False, and an
\* exception (the callback port taken, no network) propagates
Authenticate(c, auth_resp, path) ==
    IF auth_resp = "ok"
    THEN [StoreTokens(c) EXCEPT !.returned = "normally", !.path = path, !.at = c.now]
    ELSE IF auth_resp = "denied"
    THEN [c EXCEPT !.returned = "normally", !.path = path, !.at = c.now]
    ELSE [c EXCEPT !.returned = "raised", !.path = path, !.at = c.now]

\* ensure_authenticated, lines 153-164, with the response of the token
\* end point to the refresh request and to the code exchange
EnsureAuthenticated(refresh_resp, auth_resp) ==
    /\ client.status = "client"
    /\ client' =
          IF ~NeedsAuth(client)
          THEN [client EXCEPT !.returned = "normally", !.path = "valid",
                              !.at = client.now]
          ELSE IF client.refresh_token # 0
          THEN IF refresh_resp = "ok"
               THEN [StoreTokens(client) EXCEPT !.returned = "normally",
                                                !.path = "refresh",
                                                !.at = client.now]
               ELSE Authenticate(client, auth_resp, "refresh_failed")
          ELSE Authenticate(client, auth_resp, "oauth")
    /\ UNCHANGED <<trackerVars, manager>>

\* time.time() advances
Tick ==
    /\ client.status = "client"
    /\ client.now < MaxTime
    /\ client' = [client EXCEPT !.now = @ + 1]
    /\ UNCHANGED <<trackerVars, manager>>

\* StravaClient.__init__ with whatever the token file holds (lines 23-33,
\* 44-51)
AuthInit ==
    /\ TrackerIdle
    /\ \E a \in 0..1, r \in 0..1, e \in 0..MaxTime :
          client = AuthClient(a, r, e)
    /\ manager = NoManager

AuthNext ==
    \/ \E refresh_resp \in {"ok", "failed"}, auth_resp \in {"ok", "denied", "error"} :
          EnsureAuthenticated(refresh_resp, auth_resp)
    \/ Tick

AuthSpec == AuthInit /\ [][AuthNext]_vars

\* ------------------------------------------------- get_all_activities
PerPage == 2             \* per_page (200 in the code, line 220), scaled down
MaxHistory == 4          \* activities in the athlete's history

\* an activity of the API: its id and the two fields the filter reads
ActivityKinds ==
    {[type |-> "Run", sport_type |-> "TrailRun"],
     [type |-> "Ride", sport_type |-> "MountainBikeRide"],
     [type |-> "Walk", sport_type |-> "Walk"]}

\* the ways the server may cut n activities into pages of 1..PerPage
RECURSIVE PageSizes(_)
PageSizes(n) ==
    IF n = 0 THEN {<<>>}
    ELSE UNION {{<<s>> \o rest : rest \in PageSizes(n - s)} :
                   s \in 1..Min2(PerPage, n)}

\* the pages of the history h (a sequence of kinds, in server order) cut
\* into pages of the given sizes; the activity at position i has id i
RECURSIVE PagesFrom(_, _, _)
PagesFrom(h, sizes, first) ==
    IF sizes = <<>> THEN <<>>
    ELSE <<[i \in 1..sizes[1] |->
               [id |-> first + i - 1,
                type |-> h[first + i - 1].type,
                sport_type |-> h[first + i - 1].sport_type]]>>
         \o PagesFrom(h, Tail(sizes), first + sizes[1])

\* what the server holds: every page from 1 on; a page past the last one
\* is the empty list
ServedPages ==
    UNION {{PagesFrom(h, sizes, 1) : sizes \in PageSizes(Len(h))} :
              h \in SeqsUpTo(ActivityKinds, MaxHistory)}

\* GET /athlete/activities?page=p&per_page=PerPage, answered with 200
ServerPage(pages, p) == IF p <= Len(pages) THEN pages[p] ELSE <<>>

\* the filter by activity type alone
PassesFilter_TypeOnly(activity, activity_types, sport_types) ==
    IF activity_types # {} \/ sport_types # {}
    THEN activity_types # {} /\ activity.type \in activity_types
    ELSE TRUE

\* lines 249-261: whether an activity of the page is kept.  A filter that
\* is None or an empty set is falsy.
PassesFilter(activity, activity_types, sport_types) ==
    IF activity_types # {} \/ sport_types # {}
    THEN IF activity_types # {} /\ activity.type \in activity_types THEN TRUE
         ELSE IF sport_types # {} /\ activity.sport_type \in sport_types THEN TRUE
         ELSE IF activity_types = {} /\ sport_types = {} THEN TRUE
         ELSE FALSE
    ELSE TRUE

\* get_all_activities entered, after ensure_authenticated: lines 218-220
PagingClient(pages, activity_types, sport_types) ==
    [status |-> "paging",
     served |-> pages,
     activity_types |-> activity_types,
     sport_types |-> sport_types,
     page |-> 1,
     all_activities |-> <<>>,
     loop |-> "fetching"]

\* one turn of the while loop, lines 224-271, with a 200 response
FetchPage ==
    /\ client.status = "paging"
    /\ client.loop = "fetching"
    /\ LET page_activities == ServerPage(client.served, client.page)
           filtered_activities ==
               SelectSeq(page_activities,
                         LAMBDA a : PassesFilter(a, client.activity_types,
                                                 client.sport_types))
       IN  client' =
              IF page_activities = <<>>
              THEN [client EXCEPT !.loop = "returned"]
              ELSE IF Len(page_activities) < PerPage
              THEN [client EXCEPT !.all_activities = @ \o filtered_activities,
                                  !.loop = "returned"]
              ELSE [client EXCEPT !.all_activities = @ \o filtered_activities,
                                  !.page = @ + 1]
    /\ UNCHANGED <<trackerVars, manager>>

PageInit ==
    /\ TrackerIdle
    /\ \E pages \in ServedPages,
          activity_types \in {{}, {"Run"}},
          sport_types \in {{}, {"MountainBikeRide"}} :
          client = PagingClient(pages, activity_types, sport_types)
    /\ manager = NoManager

PageNext == FetchPage

PageSpec == PageInit /\ [][PageNext]_vars

\* the loop is straight-line code: with every request answered it keeps
\* taking turns
PageFairSpec == PageSpec /\ WF_vars(FetchPage)

\* ------------------------------------------------- the ConnectionManager
MaxConns == 3            \* websockets that connect during a run

\* ConnectionManager.__init__ (line 29) with the bookkeeping of the model:
\* `endpoints' are the websockets whose websocket_endpoint coroutine is
\* running, `dead' those whose peer has gone (a send to them raises),
\* `seen' those that ever connected; `phase', `it' and `sending' are the
\* position of send_progress - idle, in its for loop with the list
\* iterator at index `it', awaiting send_text to `sending' (0 for none) -
\* and `registered', `delivered', `failed' are the connections in the list
\* when the broadcast began, those that got the message and those whose
\* send raised.
NewManager ==
    [status |-> "manager",
     active_connections |-> <<>>,
     endpoints |-> {},
     dead |-> {},
     seen |-> {},
     phase |-> "idle",
     it |-> 0,
     sending |-> 0,
     registered |-> {},
     delivered |-> {},
     failed |-> {},
     error |-> "none"]

\* list.remove(x): the list without the first occurrence of x
ListRemove(list, x) ==
    LET k == CHOOSE i \in 1..Len(list) :
                /\ list[i] = x
                /\ \A j \in 1..(i - 1) : list[j] # x
    IN  SubSeq(list, 1, k - 1) \o SubSeq(list, k + 1, Len(list))

\* websocket_endpoint entered, manager.connect (lines 31-33, 65)
Connect(c) ==
    /\ manager.status = "manager"
    /\ c \notin manager.seen
    /\ manager' = [manager EXCEPT !.active_connections = Append(@, c),
                                  !.endpoints = @ \cup {c},
                                  !.seen = @ \cup {c}]
    /\ UNCHANGED <<trackerVars, client>>

\* the peer of c closes the socket
PeerCloses(c) ==
    /\ manager.status = "manager"
    /\ c \in manager.endpoints \ manager.dead
    /\ manager' = [manager EXCEPT !.dead = @ \cup {c}]
    /\ UNCHANGED <<trackerVars, client>>

\* websocket_endpoint receives WebSocketDisconnect and calls
\* manager.disconnect (lines 35-36, 69-70); list.remove raises ValueError
\* for a websocket that is not in the list
Disconnect(c) ==
    /\ manager.status = "manager"
    /\ c \in manager.endpoints \cap manager.dead
    /\ manager' =
          IF c \in Range(manager.active_connections)
          THEN [manager EXCEPT !.active_connections = ListRemove(@, c),
                               !.endpoints = @ \ {c}]
          ELSE [manager EXCEPT !.endpoints = @ \ {c}, !.error = "ValueError"]
    /\ UNCHANGED <<trackerVars, client>>

\* send_progress called (line 38): the for loop takes an iterator of the list
SendProgressStart ==
    /\ manager.status = "manager"
    /\ manager.phase \in {"idle", "done"}
    /\ manager' = [manager EXCEPT !.phase = "broadcasting",
                                  !.it = 1,
                                  !.sending = 0,
                                  !.registered = Range(manager.active_connections),
                                  !.delivered = {},
                                  !.failed = {}]
    /\ UNCHANGED <<trackerVars, client>>

\* lines 39-41: the iterator yields the element at its index in the list
\* as it is now, and send_text to it is awaited
SendBegin ==
    /\ manager.status = "manager"
    /\ manager.phase = "broadcasting"
    /\ manager.sending = 0
    /\ manager.it <= Len(manager.active_connections)
    /\ manager' = [manager EXCEPT !.sending = manager.active_connections[manager.it],
                                  !.it = @ + 1]
    /\ UNCHANGED <<trackerVars, client>>

\* lines 41-44: send_text returns, or raises and the connection is removed
\* from the list; list.remove raises ValueError out of send_progress when
\* the connection has been removed meanwhile
SendEnd ==
    /\ manager.status = "manager"
    /\ manager.phase = "broadcasting"
    /\ manager.sending # 0
    /\ LET c == manager.sending
       IN  manager' =
              IF c \notin manager.dead
              THEN [manager EXCEPT !.delivered = @ \cup {c}, !.sending = 0]
              ELSE IF c \in Range(manager.active_connections)
              THEN [manager EXCEPT !.active_connections = ListRemove(@, c),
                                   !.failed = @ \cup {c},
                                   !.sending = 0]
              ELSE [manager EXCEPT !.failed = @ \cup {c},
                                   !.sending = 0,
                                   !.phase = "raised",
                                   !.error = "ValueError"]
    /\ UNCHANGED <<trackerVars, client>>

\* the iterator is exhausted: send_progress returns
SendProgressReturn ==
    /\ manager.status = "manager"
    /\ manager.phase = "broadcasting"
    /\ manager.sending = 0
    /\ manager.it > Len(manager.active_connections)
    /\ manager' = [manager EXCEPT !.phase = "done"]
    /\ UNCHANGED <<trackerVars, client>>

ManagerInit ==
    /\ TrackerIdle
    /\ client = NoClient
    /\ manager = NewManager

ManagerNext ==
    \/ \E c \in 1..MaxConns : Connect(c)
    \/ \E c \in 1..MaxConns : PeerCloses(c)
    \/ \E c \in 1..MaxConns : Disconnect(c)
    \/ SendProgressStart
    \/ SendBegin
    \/ SendEnd
    \/ SendProgressReturn

ManagerSpec == ManagerInit /\ [][ManagerNext]_vars

\* ------------------------------------------------------------- properties
\* the observations recorded for segment id
ObservationsOf(id) == {o \in observations : o.segment_id = id}

\* the coverage ratio of the (track, segment) pair of an observation
ObsRatio(o) ==
    CalculateCoverageRatioWithLine(activities[o.track].gps_points,
                                   street_segment_objects[o.segment_id])

\* the largest ratio over the observations of segment id, as a numerator
\* over the segment's length (0 without observations)
MaxObservedNumIn(obs, acts, objs, id) ==
    LET nums == {CalculateCoverageRatioWithLine(acts[o.track].gps_points, objs[id]).num :
                    o \in {q \in obs : q.segment_id = id}}
    IN  IF nums = {} THEN 0 ELSE CHOOSE n \in nums : \A m \in nums : n >= m

MaxObservedNum(id) ==
    MaxObservedNumIn(observations, activities, street_segment_objects, id)

SegmentLengthNum(id) ==
    street_segment_objects[id].geometry.b - street_segment_objects[id].geometry.a

\* C1: a segment is Completed if and only if it has at least one observation
\* and the maximum ratio over its observations is at least MIN_COVERAGE_RATIO
\* (so two observations of ratio 0.4 under a ratio of 0.7 leave it Incomplete).
C1_CompletedIffMaxRatio ==
    \A id \in DOMAIN street_segment_objects :
        IsCompleted(street_segment_objects[id])
        <=> /\ ObservationsOf(id) # {}
            /\ 100 * MaxObservedNum(id) >= config.min_coverage_ratio * SegmentLengthNum(id)

\* C2: processing further tracks never turns a Completed segment Incomplete
\* and never lowers the maximum ratio recorded for a segment.
C2_Monotonic ==
    [][\A id \in DOMAIN street_segment_objects :
          /\ id \in DOMAIN street_segment_objects'
          /\ IsCompleted(street_segment_objects[id])
                => IsCompleted(street_segment_objects'[id])
          /\ MaxObservedNumIn(observations', activities', street_segment_objects', id)
                >= MaxObservedNum(id)]_vars

\* a Completed segment with a later track processed that did not match it
C2_Witness ==
    \E o \in observations :
        /\ IsCompleted(street_segment_objects[o.segment_id])
        /\ o.track + 1 < next_activity
        /\ \A q \in ObservationsOf(o.segment_id) : q.track <= o.track

\* C3: an observation is recorded for a (track, segment) pair only if the
\* pair's coverage ratio is strictly greater than MIN_COVERAGE_THRESHOLD.
C3_ObservationAboveThreshold ==
    \A o \in observations :
        100 * ObsRatio(o).num > MIN_COVERAGE_THRESHOLD_PCT * ObsRatio(o).den

\* C4: a track with fewer than 2 points is inert: the coverage ratio of the
\* track with any segment is 0, and processing it adds no observation,
\* changes no segment and no covered set, and raises nothing.
C4_ShortTrackInert ==
    /\ [](\A k \in 1..Len(activities), id \in DOMAIN street_segment_objects :
             Len(activities[k].gps_points) < 2
             => /\ ~CalculateCoverageRatio(activities[k].gps_points,
                                           street_segment_objects[id]).raised
                /\ CalculateCoverageRatio(activities[k].gps_points,
                                          street_segment_objects[id]).num = 0
                /\ \A o \in observations : o.track # k)
    /\ [][(ProcessActivity /\ Len(activities[next_activity].gps_points) < 2)
             => /\ street_segment_objects' = street_segment_objects
                /\ covered_segments' = covered_segments
                /\ observations' = observations
                /\ error' = error
                /\ pc' = "processing"]_vars

\* a track of fewer than 2 points has been processed, after a track that
\* completed a segment
C4_Witness ==
    /\ pc \in {"processing", "done"}
    /\ \E k \in 1..Len(activities) :
          /\ k < next_activity
          /\ Len(activities[k].gps_points) < 2
          /\ \E o \in observations : o.track < k

CeilDiv(a, b) == (a + b - 1) \div b

\* the rows emitted for the street with this street_id
RowsOf(street_id) ==
    {j \in 1..Len(street_segments) : street_segments[j].street_id = street_id}

RECURSIVE SumLengthNum(_)
SumLengthNum(js) ==
    IF js = {} THEN 0
    ELSE LET j == CHOOSE x \in js : TRUE
         IN  street_segments[j].length.num + SumLengthNum(js \ {j})

\* the rows of one street share their denominator
CommonDen(js) ==
    IF js = {} THEN 1 ELSE street_segments[CHOOSE x \in js : TRUE].length.den

\* C6: a retained street longer than MAX_SEGMENT_LENGTH is cut at
\* ceil(length / MAX_SEGMENT_LENGTH) + 1 equally spaced vertices, one piece
\* per consecutive pair: the segments emitted for it are those pieces (the
\* ones not dropped as shorter than MIN_SEGMENT_LENGTH).
C6_CeilPieces ==
    loaded =>
    \A k \in 1..Len(streets) :
        streets[k].length > config.max_segment_length
        => LET n == CeilDiv(streets[k].length, config.max_segment_length)
           IN  /\ n >= 2
               /\ {street_segments[j].geometry : j \in RowsOf(streets[k].street_id)}
                  = {g \in {PieceGeometry(streets[k], n, i) : i \in 0..(n - 1)} :
                        PieceLongEnough(g, config.min_segment_length)}

\* C7: every emitted segment has length > 0 and at most MAX_SEGMENT_LENGTH,
\* and at least MIN_SEGMENT_LENGTH unless it is a whole street shorter than
\* MIN_SEGMENT_LENGTH.
C7_LengthWithinBounds ==
    loaded =>
    \A j \in 1..Len(street_segments) :
        LET row == street_segments[j]
            street == streets[row.street_id + 1]
        IN  /\ row.length.num > 0
            /\ row.length.num <= config.max_segment_length * row.length.den
            /\ \/ row.length.num >= config.min_segment_length * row.length.den
               \/ /\ street.length < config.min_segment_length
                  /\ row.geometry = PieceGeometry(street, 1, 0)

\* C8: for a street longer than MAX_SEGMENT_LENGTH, the lengths of the
\* segments emitted for it sum to the street's length within one
\* MIN_SEGMENT_LENGTH.
C8_SumWithinMin ==
    loaded =>
    \A k \in 1..Len(streets) :
        streets[k].length > config.max_segment_length
        => LET js == RowsOf(streets[k].street_id)
               den == CommonDen(js)
           IN  Abs(streets[k].length * den - SumLengthNum(js))
                  <= config.min_segment_length * den

\* C9: a retained street of length at most MAX_SEGMENT_LENGTH yields exactly
\* one segment, with the geometry and the length of the whole street, also
\* when the street is shorter than MIN_SEGMENT_LENGTH.
C9_ShortStreetKeptWhole ==
    loaded =>
    \A k \in 1..Len(streets) :
        streets[k].length <= config.max_segment_length
        => /\ Cardinality(RowsOf(streets[k].street_id)) = 1
           /\ \A j \in RowsOf(streets[k].street_id) :
                 /\ street_segments[j].geometry
                       = [a |-> streets[k].x0,
                          b |-> streets[k].x0 + streets[k].length, den |-> 1]
                 /\ street_segments[j].length = [num |-> streets[k].length, den |-> 1]
                 /\ street_segment_objects[street_segments[j].segment_id].geometry
                       = street_segments[j].geometry

\* a street shorter than MIN_SEGMENT_LENGTH, after a street that was split,
\* has its segment
C9_Witness ==
    /\ loaded
    /\ \E k \in 2..Len(streets) :
          /\ streets[k].length < config.min_segment_length
          /\ streets[k - 1].length > config.max_segment_length
          /\ RowsOf(streets[k].street_id) # {}

\* C10: the emitted segments carry the ids 0, 1, 2, ... in emission order
\* (strictly increasing, unique, no gap where pieces were dropped), and the
\* segments of an earlier street precede those of a later one.
C10_IdsDenseAndOrdered ==
    loaded =>
    /\ \A j \in 1..Len(street_segments) : street_segments[j].segment_id = j - 1
    /\ \A i, j \in 1..Len(street_segments) :
          i < j => street_segments[i].street_id <= street_segments[j].street_id
    /\ DOMAIN street_segment_objects = 0..(Len(street_segments) - 1)

\* a street whose pieces were all dropped, followed by a street with segments
C10_Witness ==
    /\ loaded
    /\ \E k \in 1..Len(streets) :
          /\ streets[k].length > config.max_segment_length
          /\ RowsOf(streets[k].street_id) = {}
          /\ \E m \in (k + 1)..Len(streets) : RowsOf(streets[m].street_id) # {}

\* ------------------------------------------------ properties of the filter
\* the number of streets among the first i of the downloaded network whose
\* highway type is not excluded
KeptBefore(i) ==
    Cardinality({j \in 1..i : network[j].highway \notin EXCLUDED_HIGHWAY_TYPES})

\* C11: no emitted segment has a parent street of an excluded highway type,
\* and every street of the downloaded network whose highway type is not
\* excluded is among the streets handed to the Segmenter, in network order.
C11_ExcludedClassesFiltered ==
    loaded =>
    /\ \A j \in 1..Len(street_segments) :
          /\ street_segments[j].highway \notin EXCLUDED_HIGHWAY_TYPES
          /\ streets[street_segments[j].street_id + 1].highway
                \notin EXCLUDED_HIGHWAY_TYPES
    /\ Len(streets) = KeptBefore(Len(network))
    /\ \A i \in 1..Len(network) :
          network[i].highway \notin EXCLUDED_HIGHWAY_TYPES
          => LET street == streets[KeptBefore(i)]
             IN  /\ street.street_id = KeptBefore(i) - 1
                 /\ street.x0 = network[i].x0
                 /\ street.length = network[i].length
                 /\ street.highway = network[i].highway

\* a motorway dropped from in front of a street that has its segments
C11_Witness ==
    /\ loaded
    /\ Len(network) = 2
    /\ network[1].highway \in EXCLUDED_HIGHWAY_TYPES
    /\ network[2].highway \notin EXCLUDED_HIGHWAY_TYPES
    /\ Len(streets) = 1
    /\ Len(street_segments) > 0

\* ----------------------------------------- properties of process_activities
\* the file names of the tracks of a set that reach a segment
CoveringNames(tracks, seg) ==
    {t.filename :
        t \in {u \in tracks :
                  /\ Len(u.gps_points) >= 2
                  /\ Intersects(BufferedActivity(u.gps_points), seg.geometry)}}

\* the loop of process_activities has gone through every activity
LoopFinished ==
    /\ pc \in {"processing", "done"}
    /\ next_activity > Len(activities)

\* C12: the final state depends on the set of tracks only, not on the order
\* they were processed in: each segment's covering names are those of the
\* tracks of the set that reach it, it is Completed when there is one, and
\* the covered set and the completed count follow.
C12_OrderIndependent ==
    LoopFinished =>
    LET tracks == Range(activities)
        reached == {id \in DOMAIN street_segment_objects :
                      CoveringNames(tracks, street_segment_objects[id]) # {}}
    IN  /\ \A id \in DOMAIN street_segment_objects :
              /\ Range(street_segment_objects[id].activities_covering)
                    = CoveringNames(tracks, street_segment_objects[id])
              /\ IsCompleted(street_segment_objects[id]) <=> id \in reached
        /\ covered_segments = reached
        /\ Cardinality({id \in DOMAIN street_segment_objects :
                           IsCompleted(street_segment_objects[id])})
              = Cardinality(reached)

\* two tracks that reach the same segment, processed in the other order of
\* their names
C12_Witness ==
    /\ LoopFinished
    /\ \E id \in DOMAIN street_segment_objects :
          street_segment_objects[id].activities_covering = <<"b.gpx", "a.gpx">>

\* the tracks processed so far that have a coverage ratio of exactly 0.01
\* with segment id
OnePercentTracks(id) ==
    {k \in 1..Len(activities) :
        /\ pc \in {"processing", "done"}
        /\ k < next_activity
        /\ Len(activities[k].gps_points) >= 2
        /\ LET r == CalculateCoverageRatioWithLine(activities[k].gps_points,
                                                   street_segment_objects[id])
           IN  ~r.raised /\ 100 * r.num = r.den}

\* C13: with MIN_COVERAGE_RATIO = 0, a segment that has received a track
\* covering 1% of its length, and no other track, is Completed and in the
\* covered set.
C13_BinaryMode ==
    config.min_coverage_ratio = 0 =>
    \A id \in DOMAIN street_segment_objects :
        OnePercentTracks(id) # {}
        => /\ IsCompleted(street_segment_objects[id])
           /\ id \in covered_segments

\* under a completion ratio of 0, the only track of the run covers 1% of a
\* segment and has been processed
C13_Witness ==
    /\ config.min_coverage_ratio = 0
    /\ Len(activities) = 1
    /\ \E id \in DOMAIN street_segment_objects :
          /\ OnePercentTracks(id) = {1}
          /\ Len(street_segment_objects[id].activities_covering) = 1

\* ------------------------------- properties of the coverage-ratio functions
\* C14: the ratio a coverage-ratio function returned for a (track, segment)
\* pair is the ratio it returns for the pair in every later state of the
\* run, whatever tracks were processed in between.
C14_Deterministic ==
    /\ coverage_result.called = "wrapper"
          => LET w == CalculateCoverageRatioWrapperWithLine(
                          activities[coverage_result.track].gps_points,
                          street_segment_objects[coverage_result.segment_id],
                          activities[coverage_result.track].filename)
             IN  /\ w.segment_id = coverage_result.segment_id
                 /\ w.num = coverage_result.num
                 /\ w.den = coverage_result.den
                 /\ w.filename = coverage_result.filename
    /\ coverage_result.called = "unbuffered"
          => LET r == CalculateCoverageRatio(
                          activities[coverage_result.track].gps_points,
                          street_segment_objects[coverage_result.segment_id])
             IN  /\ ~r.raised
                 /\ r.num = coverage_result.num
                 /\ r.den = coverage_result.den

\* a positive ratio returned before the loop reached a track that covers
\* the segment, with that track processed since
C14_Witness ==
    /\ coverage_result.called = "wrapper"
    /\ coverage_result.num > 0
    /\ pc \in {"processing", "done"}
    /\ coverage_result.at < next_activity
    /\ \E o \in ObservationsOf(coverage_result.segment_id) :
          /\ coverage_result.at <= o.track
          /\ o.track < next_activity

\* ------------------------------------------------ properties of the statistics
\* C15: create_map, export_statistics and the response of analyze_coverage
\* leave every segment's coverage state, the covered set, the segments and
\* the activities as they are, and producing the same statistics again
\* gives the same record.
C15_AggregatorReadOnly ==
    [][(CreateMap \/ ExportStatistics \/ AnalyzeCoverageResponse)
          => /\ street_segment_objects' = street_segment_objects
             /\ covered_segments' = covered_segments
             /\ street_segments' = street_segments
             /\ activities' = activities
             /\ observations' = observations
             /\ (stats'.source = stats.source => stats' = stats)]_vars

\* the response built after the map and the statistics file were written,
\* with a segment completed
C15_Witness ==
    /\ stats.source = "analyze_coverage"
    /\ stats.completed_segments > 0
    /\ covered_segments # {}

\* C16: the statistics report the number of segments, the number of
\* Completed segments (between 0 and the number of segments), their
\* percentage completed / total * 100, and the number of tracks processed.
C16_AggregateRecord ==
    stats.source # "none" =>
    /\ stats.total_segments = Cardinality(DOMAIN street_segment_objects)
    /\ stats.completed_segments
          = Cardinality({id \in DOMAIN street_segment_objects :
                            IsCompleted(street_segment_objects[id])})
    /\ 0 <= stats.completed_segments
    /\ stats.completed_segments <= stats.total_segments
    /\ stats.coverage_percentage.den > 0
    /\ stats.coverage_percentage.num * stats.total_segments
          = 100 * stats.completed_segments * stats.coverage_percentage.den
    /\ stats.total_activities = next_activity - 1
    /\ stats.total_activities
          = Cardinality({k \in 1..Len(activities) : ~SkipsActivity(activities[k])})

\* statistics of a run of two tracks that completed one segment of two
C16_Witness ==
    /\ stats.source = "export_statistics"
    /\ stats.total_segments = 2
    /\ stats.completed_segments = 1
    /\ stats.total_activities = 2

\* ------------------------------------------ properties of the coverage state
\* C17: for every segment, one ratio is stored for each covering track, the
\* record's activity_count is the number of observations recorded for the
\* segment, and its max_ratio is the largest ratio among them.
C17_PerSegmentRecord ==
    \A id \in DOMAIN street_segment_objects :
        LET seg == street_segment_objects[id]
            ratios == Range(seg.coverage_ratios)
        IN  /\ CompletionMetadata(seg).activity_count
                  = Cardinality(ObservationsOf(id))
            /\ Len(seg.coverage_ratios) = Len(seg.activities_covering)
            /\ ObservationsOf(id) # {}
                  => \E r \in ratios :
                        /\ r.num * SegmentLengthNum(id) = MaxObservedNum(id) * r.den
                        /\ \A q \in ratios : q.num * r.den <= r.num * q.den

\* s is an initial part of t
IsPrefix(s, t) == Len(s) <= Len(t) /\ SubSeq(t, 1, Len(s)) = s

\* C18: once the streets are split there is exactly one coverage state per
\* emitted segment, keyed by the segment's id and empty (no covering
\* activity, no ratio, Incomplete) until activities are processed; from then
\* on no state is removed and a covering list only grows at its end.
C18_OneStatePerSegment ==
    /\ [](loaded =>
            /\ DOMAIN street_segment_objects
                  = {street_segments[j].segment_id : j \in 1..Len(street_segments)}
            /\ Cardinality(DOMAIN street_segment_objects) = Len(street_segments)
            /\ \A j \in 1..Len(street_segments) :
                  LET seg == street_segment_objects[street_segments[j].segment_id]
                  IN  /\ seg.segment_id = street_segments[j].segment_id
                      /\ seg.geometry = street_segments[j].geometry
                      /\ seg.street_id = street_segments[j].street_id
            /\ pc \in {"streets", "activities"}
                  => \A id \in DOMAIN street_segment_objects :
                        /\ street_segment_objects[id].activities_covering = <<>>
                        /\ street_segment_objects[id].coverage_ratios = <<>>
                        /\ ~IsCompleted(street_segment_objects[id])
                        /\ ObservationsOf(id) = {})
    /\ [][loaded =>
            /\ DOMAIN street_segment_objects' = DOMAIN street_segment_objects
            /\ observations \subseteq observations'
            /\ covered_segments \subseteq covered_segments'
            /\ \A id \in DOMAIN street_segment_objects :
                  IsPrefix(street_segment_objects[id].activities_covering,
                           street_segment_objects'[id].activities_covering)]_vars

\* one of two segments holds two covering activities, the other none
C18_Witness ==
    /\ Cardinality(DOMAIN street_segment_objects) = 2
    /\ \E id, other \in DOMAIN street_segment_objects :
          /\ Len(street_segment_objects[id].activities_covering) = 2
          /\ Len(street_segment_objects[other].activities_covering) = 0

\* the segment objects of a run of process_activities over the first k of
\* the activities, from the objects as created
RECURSIVE ObjectsAfter(_)
ObjectsAfter(k) ==
    IF k = 0 THEN SegmentObjects(street_segments)
    ELSE LET before == ObjectsAfter(k - 1)
         IN  IF SkipsActivity(activities[k]) THEN before
             ELSE [id \in DOMAIN before |-> UpdateSegment(before[id], activities[k])]

\* C19: when processing is stopped after k activities, the tracker is in
\* the state of a complete run over those k activities: each segment lists
\* the names of the tracks among them that reach it, the covered set is the
\* set of Completed segments, and statistics produced from the stopped run
\* agree with the segments' states.
C19_CancellationSafe ==
    pc = "cancelled" =>
    LET k == next_activity - 1
        tracks == {activities[j] : j \in 1..k}
        completed == {id \in DOMAIN street_segment_objects :
                        IsCompleted(street_segment_objects[id])}
    IN  /\ street_segment_objects = ObjectsAfter(k)
        /\ \A id \in DOMAIN street_segment_objects :
              /\ Range(street_segment_objects[id].activities_covering)
                    = CoveringNames(tracks, street_segment_objects[id])
              /\ Cardinality(Range(street_segment_objects[id].activities_covering))
                    = Len(street_segment_objects[id].activities_covering)
        /\ covered_segments = completed
        /\ error = "none"
        /\ stats.source # "none"
              => /\ stats.total_segments = Cardinality(DOMAIN street_segment_objects)
                 /\ stats.completed_segments = Cardinality(completed)
                 /\ stats.completed_segments <= stats.total_segments
                 /\ stats.coverage_percentage.num * stats.total_segments
                       = 100 * stats.completed_segments * stats.coverage_percentage.den

\* a run stopped after the first of two activities, which missed the
\* segment the second one reaches, and its statistics exported
C19_Witness ==
    /\ pc = "cancelled"
    /\ Len(activities) = 2
    /\ next_activity = 2
    /\ stats.source = "export_statistics"
    /\ stats.completed_segments = 0
    /\ \E id \in DOMAIN street_segment_objects :
          Intersects(BufferedActivity(activities[2].gps_points),
                     street_segment_objects[id].geometry)

\* ------------------------------------------------ properties of the loading
\* the files of a directory that parse, have at least 2 points and lie
\* within the city bounds, in walk order
WellFormedLocal(dir) ==
    SelectSeq(dir, LAMBDA f : IF ParseRaises(f) THEN FALSE
                              ELSE /\ Len(f.gps_points) >= 2
                                   /\ IsLocal(f.gps_points, streets))

\* the names of the files of a directory that do not parse, in walk order
MalformedNames(dir) ==
    LET bad == SelectSeq(dir, ParseRaises)
    IN  [k \in 1..Len(bad) |-> bad[k].filename]

C21_FatalConditionAborts ==
    (\/ loaded /\ Len(street_segments) = 0
     \/ config.min_segment_length > config.max_segment_length)
    => /\ pc # "done"
       /\ stats = NoStats

\* the track through points lies within dist of the LineString g
WithinDistance(points, g, dist) ==
    LET lons == {points[i].lon : i \in 1..Len(points)}
        lo == CHOOSE x \in lons : \A y \in lons : x <= y
        hi == CHOOSE x \in lons : \A y \in lons : x >= y
        d == points[1].lat
        gap == Max2(0, Max2(g.a - hi * g.den, lo * g.den - g.b))
    IN  g.den * g.den * d * d + gap * gap <= g.den * g.den * dist * dist

\* C23: a track is matched to a segment only if the segment lies within the
\* buffer distance the tracker was built with: every observation is of a
\* track within config.buffer_distance of the segment.
C23_ConfiguredBufferUsed ==
    \A o \in observations :
        WithinDistance(activities[o.track].gps_points,
                       street_segment_objects[o.segment_id].geometry,
                       config.buffer_distance)

\* ------------------------------------------ properties of degenerate input
\* every point of the track is the same point
AllIdentical(points) ==
    /\ Len(points) >= 1
    /\ \A i \in 1..Len(points) : points[i] = points[1]

\* C22: the matcher does not raise on degenerate geometry: the run does not
\* fail, the ratio returned for a segment of length 0 is 0, and a track
\* whose points are all identical matches no segment - its ratio is 0 for
\* every segment and no observation of it is recorded.
C22_DegenerateGeometrySafe ==
    /\ error = "none"
    /\ coverage_result.called = "wrapper"
       => LET seg == street_segment_objects[coverage_result.segment_id]
              points == activities[coverage_result.track].gps_points
          IN  /\ seg.geometry.b = seg.geometry.a => coverage_result.num = 0
              /\ AllIdentical(points) => coverage_result.num = 0
    /\ \A o \in observations : ~AllIdentical(activities[o.track].gps_points)

\* for a segment of length 0 alone: no failure, and the ratio returned is 0
ZeroLengthRatioZero ==
    /\ error = "none"
    /\ coverage_result.called = "wrapper"
       => LET seg == street_segment_objects[coverage_result.segment_id]
          IN  seg.geometry.b = seg.geometry.a => coverage_result.num = 0

C25_CoveredIsCompleted ==
    LET completed == {id \in DOMAIN street_segment_objects :
                        IsCompleted(street_segment_objects[id])}
    IN  /\ covered_segments = completed
        /\ MapStatistics.completed_segments = ExportedStatistics.completed_segments
        /\ stats.source \in {"create_map", "export_statistics"}
              => stats.completed_segments = Cardinality(completed)

\* the map made of a run in which two tracks covered one of two segments
C25_Witness ==
    /\ stats.source = "create_map"
    /\ stats.total_segments = 2
    /\ stats.completed_segments = 1
    /\ \E id \in covered_segments :
          Len(street_segment_objects[id].activities_covering) = 2

\* ------------------------------------------------ properties of repeated runs
\* the tracks of the run that reach segment seg, as distinct tracks
MatchingTracks(seg) ==
    {t \in Range(activities) :
        /\ Len(t.gps_points) >= 2
        /\ Intersects(BufferedActivity(t.gps_points), seg.geometry)}

\* no covering list holds a name twice, and once the tracker is in the
\* state of a complete pass over its activities no further step of
\* process_activities changes a segment or the covered set
RerunLeavesState ==
    /\ [](\A id \in DOMAIN street_segment_objects :
             Cardinality(Range(street_segment_objects[id].activities_covering))
                = Len(street_segment_objects[id].activities_covering))
    /\ [][(/\ pc \in {"processing", "done"}
           /\ street_segment_objects = ObjectsAfter(Len(activities)))
          => /\ street_segment_objects' = street_segment_objects
             /\ covered_segments' = covered_segments]_vars

\* a second call of process_activities has gone through every activity
SecondPassFinished ==
    /\ pc = "processing"
    /\ next_activity = 1
    /\ observations # {}

\* C26: processing is idempotent per track: no covering list holds the same
\* track twice, a further call of process_activities on the same
\* activities changes no segment and not the covered set, and every one of
\* the distinct tracks that match a segment is counted for it.
C26_IdempotentPerTrack ==
    /\ RerunLeavesState
    /\ [](LoopFinished
          => \A id \in DOMAIN street_segment_objects :
                Len(street_segment_objects[id].activities_covering)
                   = Cardinality(MatchingTracks(street_segment_objects[id])))

\* ----------------------------------------------- properties of the client
\* C27: when ensure_authenticated has returned normally the client holds a
\* valid access token - access_token is set and not expired at the time of
\* the return - whichever path the call took.
C27_AuthenticatedOnReturn ==
    (/\ client.status = "client"
     /\ client.returned = "normally"
     /\ client.at = client.now)
    => ~NeedsAuth(client)

\* ------------------------------------------------ properties of the paging
RECURSIVE Flatten(_)
Flatten(pages) ==
    IF pages = <<>> THEN <<>> ELSE pages[1] \o Flatten(Tail(pages))

\* the number of the first page that is empty or short
StopPage(pages) ==
    CHOOSE k \in 1..(Len(pages) + 1) :
        /\ Len(ServerPage(pages, k)) < PerPage
        /\ \A j \in 1..(k - 1) : Len(ServerPage(pages, j)) = PerPage

\* the activities of a sequence that the filter of the call lets through
Filtered(acts) ==
    SelectSeq(acts, LAMBDA a : \/ client.activity_types = {} /\ client.sport_types = {}
                               \/ a.type \in client.activity_types
                               \/ a.sport_type \in client.sport_types)

\* C28: with every response successful get_all_activities terminates, and
\* it returns, in server order and each once, the activities that pass the
\* filter from the pages up to the first empty or short page, where it
\* stops; when no page before the last is short these are all the
\* activities of the history that pass the filter.
C28_AllPagesFetched ==
    /\ [](client.status = "paging" /\ client.loop = "returned"
          => LET k == StopPage(client.served)
             IN  /\ client.page = k
                 /\ client.all_activities
                       = Filtered(Flatten(SubSeq(client.served, 1,
                                                 Min2(k, Len(client.served)))))
                 /\ \A i, j \in 1..Len(client.all_activities) :
                       i < j => client.all_activities[i].id
                                  < client.all_activities[j].id
                 /\ k >= Len(client.served)
                       => client.all_activities = Filtered(Flatten(client.served)))
    /\ <>(client.status = "paging" /\ client.loop = "returned")

\* a history of full pages only, returned at the empty page that follows
\* them, with an activity kept for its type, one kept for its sport type
\* and one filtered out
C28_Witness ==
    /\ client.status = "paging"
    /\ client.loop = "returned"
    /\ Len(client.served) >= 1
    /\ client.page = Len(client.served) + 1
    /\ client.activity_types # {}
    /\ client.sport_types # {}
    /\ Len(client.all_activities) < Len(Flatten(client.served))
    /\ \E a \in Range(client.all_activities) : a.type \in client.activity_types
    /\ \E a \in Range(client.all_activities) : a.type \notin client.activity_types

\* ------------------------------------------- properties of the broadcast
\* C29: a broadcast that has returned has delivered the message to every
\* connection that was registered when it began and whose peer is there,
\* has removed the connections whose send failed, and neither
\* send_progress nor a later disconnect of a removed connection raised,
\* whatever connected, failed or disconnected while it ran.
C29_BroadcastReachesAll ==
    manager.status = "manager"
    => /\ manager.error = "none"
       /\ manager.phase = "done"
          => /\ \A c \in manager.registered \ manager.dead : c \in manager.delivered
             /\ \A c \in manager.failed : c \notin Range(manager.active_connections)

\* a broadcast that has returned has skipped no connection whose peer is
\* there
NobodySkipped ==
    (manager.status = "manager" /\ manager.phase = "done")
    => \A c \in manager.registered \ manager.dead : c \in manager.delivered

\* neither send_progress nor disconnect has raised
NothingRaised == manager.status = "manager" => manager.error = "none"

====
